---------------------------- MODULE Spec2Model ----------------------------
(***************************************************************************)
(* Recipe Explorer (recipe_frontend/src/App.js): the catalog filter, the   *)
(* two localStorage slots (favorites, ratings) and the App component's     *)
(* state and handlers.                                                     *)
(*                                                                         *)
(* Strings are TLA+ strings, taken apart with Len, SubSeq and \o.  A       *)
(* JavaScript value is a record [t, n, s, e]: t its type, n the number (or *)
(* 0/1 of a boolean), s the text of a string, e the own properties of an   *)
(* object or array in property order, each [k |-> key, v |-> value].       *)
(***************************************************************************)
EXTENDS Integers, Sequences, FiniteSets, TLC

(***************************************************************************)
(* String primitives of the JavaScript runtime used by App.js.             *)
(***************************************************************************)
UpperCaseLetters == "ABCDEFGHIJKLMNOPQRSTUVWXYZ"
LowerCaseLetters == "abcdefghijklmnopqrstuvwxyz"
DigitChars == "0123456789"
WhiteSpace == {" ", "\t", "\n"}

\* s.charAt(i - 1): the i-th character, "" past the end.
CharAt(s, i) == IF 1 <= i /\ i <= Len(s) THEN SubSeq(s, i, i) ELSE ""

\* The 1-based position of the one-character string c in str, 0 if absent.
IndexIn(str, c) ==
  IF \E i \in 1..Len(str) : CharAt(str, i) = c
  THEN CHOOSE i \in 1..Len(str) : CharAt(str, i) = c
  ELSE 0

\* The lower-case letter of every upper-case letter.
LowerOf ==
  [c \in {CharAt(UpperCaseLetters, i) : i \in 1..Len(UpperCaseLetters)} |->
     CharAt(LowerCaseLetters, IndexIn(UpperCaseLetters, c))]

LowerChar(c) == IF c \in DOMAIN LowerOf THEN LowerOf[c] ELSE c

RECURSIVE ToLowerCase(_)
\* String.prototype.toLowerCase: every character lowered, here half by half.
ToLowerCase(s) ==
  IF Len(s) = 0 THEN ""
  ELSE IF Len(s) = 1 THEN LowerChar(s)
  ELSE ToLowerCase(SubSeq(s, 1, Len(s) \div 2))
         \o ToLowerCase(SubSeq(s, (Len(s) \div 2) + 1, Len(s)))

RECURSIVE TrimStart(_)
TrimStart(s) ==
  IF Len(s) > 0 /\ CharAt(s, 1) \in WhiteSpace
  THEN TrimStart(SubSeq(s, 2, Len(s)))
  ELSE s

RECURSIVE TrimEnd(_)
TrimEnd(s) ==
  IF Len(s) > 0 /\ CharAt(s, Len(s)) \in WhiteSpace
  THEN TrimEnd(SubSeq(s, 1, Len(s) - 1))
  ELSE s

\* String.prototype.trim
Trim(s) == TrimEnd(TrimStart(s))

\* String.prototype.includes
StrIncludes(hay, q) ==
  \E i \in 0..(Len(hay) - Len(q)) : SubSeq(hay, i + 1, i + Len(q)) = q

\* Array.prototype.includes
ArrIncludes(arr, x) == \E i \in 1..Len(arr) : arr[i] = x

RECURSIVE Join(_, _)
\* Array.prototype.join
Join(arr, sep) ==
  IF Len(arr) = 0 THEN ""
  ELSE IF Len(arr) = 1 THEN arr[1]
  ELSE arr[1] \o sep \o Join(Tail(arr), sep)

RECURSIVE NumToString(_)
\* String(n) of a non-negative integer
NumToString(n) ==
  IF n < 10 THEN CharAt(DigitChars, n + 1)
  ELSE NumToString(n \div 10) \o CharAt(DigitChars, (n % 10) + 1)

(***************************************************************************)
(* JavaScript values.                                                      *)
(***************************************************************************)
JSUndefined == [t |-> "undefined", n |-> 0, s |-> "", e |-> <<>>]
JSNull == [t |-> "null", n |-> 0, s |-> "", e |-> <<>>]
JSTrue == [t |-> "boolean", n |-> 1, s |-> "", e |-> <<>>]
JSFalse == [t |-> "boolean", n |-> 0, s |-> "", e |-> <<>>]
JSNum(k) == [t |-> "number", n |-> k, s |-> "", e |-> <<>>]
JSStr(str) == [t |-> "string", n |-> 0, s |-> str, e |-> <<>>]
JSObj(entries) == [t |-> "object", n |-> 0, s |-> "", e |-> entries]
JSArr(entries) == [t |-> "array", n |-> 0, s |-> "", e |-> entries]
EmptyObject == JSObj(<<>>)

\* ToBoolean: what `!!v`, `v ? a : b` and `if (v)` test.
Truthy(v) ==
  CASE v.t \in {"undefined", "null"} -> FALSE
    [] v.t = "boolean" -> v.n = 1
    [] v.t = "number" -> v.n # 0
    [] v.t = "string" -> v.s # ""
    [] OTHER -> TRUE

HasKey(entries, key) == \E i \in 1..Len(entries) : entries[i].k = key

EntryOf(entries, key) ==
  entries[CHOOSE i \in 1..Len(entries) : entries[i].k = key]

\* The characters of a string as indexed properties ("0", "1", ...).
StrEntries(str) ==
  [i \in 1..Len(str) |-> [k |-> NumToString(i - 1), v |-> JSStr(CharAt(str, i))]]

\* The own enumerable properties of a value, in property order.
OwnEntries(v) ==
  CASE v.t \in {"object", "array"} -> v.e
    [] v.t = "string" -> StrEntries(v.s)
    [] OTHER -> <<>>

\* v[key] for a recipe identifier key (never "length" or a prototype name);
\* of null or undefined it throws, which the callers guard against.
GetProp(v, key) ==
  IF HasKey(OwnEntries(v), key) THEN EntryOf(OwnEntries(v), key).v
  ELSE JSUndefined

\* obj[key] = val on a plain object: in place if present, appended if not.
SetProp(entries, key, val) ==
  IF HasKey(entries, key)
  THEN [i \in 1..Len(entries) |->
          IF entries[i].k = key THEN [k |-> key, v |-> val] ELSE entries[i]]
  ELSE Append(entries, [k |-> key, v |-> val])

\* delete obj[key]
DeleteProp(entries, key) == SelectSeq(entries, LAMBDA en : en.k # key)

\* Object.keys(v) of a value that is not null or undefined.
ObjectKeys(v) == [i \in 1..Len(OwnEntries(v)) |-> OwnEntries(v)[i].k]

\* { ...v }: a fresh plain object with v's own enumerable properties.
Spread(v) == OwnEntries(v)


(***************************************************************************)
(* JSON.stringify and JSON.parse, character by character, for the JSON     *)
(* that the program writes and the raw slot contents considered here:      *)
(* objects, arrays, strings without escapes, non-negative integers, true,  *)
(* false and null, with optional white space between tokens.               *)
(***************************************************************************)
RECURSIVE JSONStringify(_)
RECURSIVE StringifyMembers(_, _)
\* The members of an object ("k":v,...) or the elements of an array (v,...).
StringifyMembers(entries, withKeys) ==
  IF Len(entries) = 0 THEN ""
  ELSE (IF withKeys THEN "\"" \o entries[1].k \o "\":" ELSE "")
       \o JSONStringify(entries[1].v)
       \o (IF Len(entries) > 1 THEN "," ELSE "")
       \o StringifyMembers(Tail(entries), withKeys)

\* JSON.stringify(v) of a value that holds no undefined
JSONStringify(v) ==
  CASE v.t = "object" -> "{" \o StringifyMembers(v.e, TRUE) \o "}"
    [] v.t = "array" -> "[" \o StringifyMembers(v.e, FALSE) \o "]"
    [] v.t = "string" -> "\"" \o v.s \o "\""
    [] v.t = "number" -> NumToString(v.n)
    [] v.t = "boolean" -> IF v.n = 1 THEN "true" ELSE "false"
    [] OTHER -> "null"

\* A parse step's result: ok, the value read, and the next position to read.
ParseFail == [ok |-> FALSE, v |-> JSUndefined, i |-> 0]
ParseOk(v, i) == [ok |-> TRUE, v |-> v, i |-> i]

RECURSIVE SkipWs(_, _)
SkipWs(s, i) == IF CharAt(s, i) \in WhiteSpace THEN SkipWs(s, i + 1) ELSE i

RECURSIVE ScanString(_, _)
\* The position of the closing quote of a string whose text starts at i, 0 if
\* the text ends first.
ScanString(s, i) ==
  IF i > Len(s) THEN 0
  ELSE IF CharAt(s, i) = "\"" THEN i
  ELSE ScanString(s, i + 1)

\* A string literal starting at its opening quote at i.
ParseString(s, i) ==
  LET close == ScanString(s, i + 1)
  IN  IF CharAt(s, i) # "\"" \/ close = 0 THEN ParseFail
      ELSE ParseOk(JSStr(SubSeq(s, i + 1, close - 1)), close + 1)

\* The number every digit stands for.
DigitValue ==
  [c \in {CharAt(DigitChars, i) : i \in 1..Len(DigitChars)} |->
     IndexIn(DigitChars, c) - 1]

IsDigit(c) == c \in DOMAIN DigitValue

RECURSIVE ScanDigits(_, _, _)
\* Reads digits from i with acc the number read so far.
ScanDigits(s, i, acc) ==
  IF IsDigit(CharAt(s, i))
  THEN ScanDigits(s, i + 1, acc * 10 + DigitValue[CharAt(s, i)])
  ELSE ParseOk(JSNum(acc), i)

\* A number starting at a digit at i; a leading zero stands alone.
ParseNumber(s, i) ==
  IF CharAt(s, i) = "0"
  THEN (IF IsDigit(CharAt(s, i + 1)) THEN ParseFail ELSE ParseOk(JSNum(0), i + 1))
  ELSE ScanDigits(s, i, 0)

ParseLiteral(s, i, word, v) ==
  IF i + Len(word) - 1 <= Len(s) /\ SubSeq(s, i, i + Len(word) - 1) = word
  THEN ParseOk(v, i + Len(word))
  ELSE ParseFail

RECURSIVE ParseValue(_, _)
RECURSIVE ParseMembers(_, _, _)
RECURSIVE ParseElements(_, _, _)

\* After "{" or ",": "key" : value, then "," or "}".  A repeated key keeps its
\* first position and takes the last value.
ParseMembers(s, i, acc) ==
  LET key == ParseString(s, SkipWs(s, i))
  IN  IF ~key.ok THEN ParseFail
      ELSE LET colon == SkipWs(s, key.i)
           IN  IF CharAt(s, colon) # ":" THEN ParseFail
               ELSE LET val == ParseValue(s, colon + 1)
                    IN  IF ~val.ok THEN ParseFail
                        ELSE LET next == SkipWs(s, val.i)
                                 entries == SetProp(acc, key.v.s, val.v)
                             IN  CASE CharAt(s, next) = "," ->
                                        ParseMembers(s, next + 1, entries)
                                   [] CharAt(s, next) = "}" ->
                                        ParseOk(JSObj(entries), next + 1)
                                   [] OTHER -> ParseFail

\* After "[" or ",": value, then "," or "]".
ParseElements(s, i, acc) ==
  LET val == ParseValue(s, i)
  IN  IF ~val.ok THEN ParseFail
      ELSE LET next == SkipWs(s, val.i)
               entries == Append(acc, [k |-> NumToString(Len(acc)), v |-> val.v])
           IN  CASE CharAt(s, next) = "," -> ParseElements(s, next + 1, entries)
                 [] CharAt(s, next) = "]" -> ParseOk(JSArr(entries), next + 1)
                 [] OTHER -> ParseFail

ParseValue(s, i) ==
  LET j == SkipWs(s, i)
      c == CharAt(s, j)
  IN  CASE c = "{" ->
             IF CharAt(s, SkipWs(s, j + 1)) = "}"
             THEN ParseOk(EmptyObject, SkipWs(s, j + 1) + 1)
             ELSE ParseMembers(s, j + 1, <<>>)
        [] c = "[" ->
             IF CharAt(s, SkipWs(s, j + 1)) = "]"
             THEN ParseOk(JSArr(<<>>), SkipWs(s, j + 1) + 1)
             ELSE ParseElements(s, j + 1, <<>>)
        [] c = "\"" -> ParseString(s, j)
        [] IsDigit(c) -> ParseNumber(s, j)
        [] c = "t" -> ParseLiteral(s, j, "true", JSTrue)
        [] c = "f" -> ParseLiteral(s, j, "false", JSFalse)
        [] c = "n" -> ParseLiteral(s, j, "null", JSNull)
        [] OTHER -> ParseFail

\* JSON.parse(s): [ok |-> FALSE] stands for the SyntaxError it throws.
JSONParse(s) ==
  LET r == ParseValue(s, 1)
  IN  IF r.ok /\ SkipWs(s, r.i) = Len(s) + 1 THEN r ELSE ParseFail


(***************************************************************************)
(* The catalog.  Of each recipe the fields the logic reads: id, title,     *)
(* categories and ingredients (image, steps, rating and timeMinutes are    *)
(* only displayed).                                                        *)
(***************************************************************************)
DEMO_RECIPES ==
  << [id |-> "r1", title |-> "Spicy Avocado Toast",
      categories |-> <<"Breakfast", "Vegetarian">>,
      ingredients |-> <<"2 slices sourdough", "1 ripe avocado", "chili flakes",
                        "olive oil", "salt", "pepper", "lemon juice">>],
     [id |-> "r2", title |-> "Creamy Tomato Pasta",
      categories |-> <<"Lunch", "Pasta", "Vegetarian">>,
      ingredients |-> <<"200g penne", "garlic", "tomato sauce", "cream", "basil",
                        "parmesan", "olive oil", "salt">>],
     [id |-> "r3", title |-> "Grilled Lemon Chicken",
      categories |-> <<"Dinner", "Grill">>,
      ingredients |-> <<"2 chicken breasts", "lemon", "garlic", "olive oil",
                        "rosemary", "salt", "pepper">>],
     [id |-> "r4", title |-> "Berry Yogurt Parfait",
      categories |-> <<"Breakfast", "Dessert">>,
      ingredients |-> <<"Greek yogurt", "mixed berries", "granola", "honey",
                        "mint">>],
     [id |-> "r5", title |-> "Quinoa Veggie Bowl",
      categories |-> <<"Lunch", "Vegan", "Gluten-free">>,
      ingredients |-> <<"quinoa", "roasted veggies", "chickpeas", "tahini",
                        "lemon", "parsley", "salt", "pepper">>] >>

LS_KEYS == [favorites |-> "recipe_favorites_v1", ratings |-> "recipe_ratings_v1"]

\* The values the rating control offers.
stars == 1..5

\* The unique category labels of the catalog (the sidebar sorts them; their
\* order plays no part in any handler).
categories ==
  UNION {{r.categories[i] : i \in 1..Len(r.categories)} :
           r \in {DEMO_RECIPES[j] : j \in 1..Len(DEMO_RECIPES)}}

(***************************************************************************)
(* State.  selected is the position in DEMO_RECIPES of the recipe shown in *)
(* the modal, 0 for null.  localStorage maps each key to [has, raw]: has   *)
(* is FALSE when getItem returns null, raw is the stored text.  loaded     *)
(* says that the mount effect has run.  last, audit, before and steps      *)
(* record the history of the run for the properties below: the last        *)
(* operation, what happened to each slot since the page was loaded, the    *)
(* same of the page before the last reload, and the number of handler      *)
(* calls and reloads.                                                      *)
(***************************************************************************)
VARIABLES query, activeCategory, selected, favorites, ratings, localStorage,
          loaded, last, audit, before, steps

vars == <<query, activeCategory, selected, favorites, ratings, localStorage,
          loaded, last, audit, before, steps>>

ui == <<query, activeCategory, selected>>

RecipeIds == {DEMO_RECIPES[i].id : i \in 1..Len(DEMO_RECIPES)}

(***************************************************************************)
(* Local storage utilities, of the store they read or write.  readOk =     *)
(* FALSE and writeOk = FALSE are the cases in which localStorage.getItem   *)
(* or localStorage.setItem throws.                                         *)
(***************************************************************************)
getStoredFavorites(store, readOk) ==
  IF ~readOk THEN EmptyObject
  ELSE LET item == store[LS_KEYS.favorites]
       IN  IF item.has /\ item.raw # ""
           THEN (IF JSONParse(item.raw).ok THEN JSONParse(item.raw).v
                 ELSE EmptyObject)
           ELSE EmptyObject

\* Faulty variant of setStoredFavorites: a failed write empties the slot.
setStoredFavoritesDropsSlot(store, map, writeOk) ==
  IF writeOk
  THEN [store EXCEPT
          ![LS_KEYS.favorites] = [has |-> TRUE, raw |-> JSONStringify(map)]]
  ELSE [store EXCEPT ![LS_KEYS.favorites] = [has |-> FALSE, raw |-> ""]]

\* Faulty variant of setStoredFavorites: it writes under the ratings key.
setStoredFavoritesWrongKey(store, map, writeOk) ==
  IF writeOk
  THEN [store EXCEPT
          ![LS_KEYS.ratings] = [has |-> TRUE, raw |-> JSONStringify(map)]]
  ELSE store

\* The store after setStoredFavorites(map).
setStoredFavorites(store, map, writeOk) ==
  IF writeOk
  THEN [store EXCEPT
          ![LS_KEYS.favorites] = [has |-> TRUE, raw |-> JSONStringify(map)]]
  ELSE store

\* Faulty variant of getStoredRatings: it reads the favorites key.
getStoredRatingsWrongKey(store, readOk) ==
  IF ~readOk THEN EmptyObject
  ELSE LET item == store[LS_KEYS.favorites]
       IN  IF item.has /\ item.raw # ""
           THEN (IF JSONParse(item.raw).ok THEN JSONParse(item.raw).v
                 ELSE EmptyObject)
           ELSE EmptyObject

getStoredRatings(store, readOk) ==
  IF ~readOk THEN EmptyObject
  ELSE LET item == store[LS_KEYS.ratings]
       IN  IF item.has /\ item.raw # ""
           THEN (IF JSONParse(item.raw).ok THEN JSONParse(item.raw).v
                 ELSE EmptyObject)
           ELSE EmptyObject

\* Faulty variant of setStoredRatings: nothing is written.
setStoredRatingsSkipsWrite(store, map, writeOk) == store

\* The store after setStoredRatings(map).
setStoredRatings(store, map, writeOk) ==
  IF writeOk
  THEN [store EXCEPT
          ![LS_KEYS.ratings] = [has |-> TRUE, raw |-> JSONStringify(map)]]
  ELSE store

(***************************************************************************)
(* The filter (useMemo on query and activeCategory).                       *)
(***************************************************************************)
hay(r) ==
  ToLowerCase(Join(<<r.title>> \o r.categories \o r.ingredients, " "))

\* hay of every recipe of the catalog, computed once.
HayOf == [id \in RecipeIds |->
            hay(CHOOSE r \in {DEMO_RECIPES[i] : i \in 1..Len(DEMO_RECIPES)} :
                  r.id = id)]

\* Faulty variant of Filter: the query is not trimmed.
FilterUntrimmed(qy, category) ==
  LET q == ToLowerCase(qy)
      keep(r) ==
        LET matchesCategory ==
              category = "All" \/ ArrIncludes(r.categories, category)
        IN  IF q = "" THEN matchesCategory
            ELSE matchesCategory /\ StrIncludes(HayOf[r.id], q)
  IN  SelectSeq(DEMO_RECIPES, keep)

Filter(qy, category) ==
  LET q == ToLowerCase(Trim(qy))
      keep(r) ==
        LET matchesCategory ==
              category = "All" \/ ArrIncludes(r.categories, category)
        IN  IF q = "" THEN matchesCategory
            ELSE matchesCategory /\ StrIncludes(HayOf[r.id], q)
  IN  SelectSeq(DEMO_RECIPES, keep)

(***************************************************************************)
(* Bounds of the model and the inputs it draws.                            *)
(***************************************************************************)
\* Handler calls (clicks and key strokes) and page reloads in one run.
MaxSteps == 3
\* Length of the query strings the filter is checked on.
MaxQueryLen == 3

Absent == [has |-> FALSE, raw |-> ""]
Stored(text) == [has |-> TRUE, raw |-> text]

\* What the favorites slot may hold when the page is opened.
FavoritesSlotInputs ==
  {Absent} \cup
  {Stored(text) : text \in
     {"", "not json", "{\"r1\":", "null", "7", "\"ab\"", "[1]",
      "{\"r1\":true}", "{\"r1\":false}", "{\"r3\":true,\"r1\":true}"}}

\* What the ratings slot may hold when the page is opened.
RatingsSlotInputs ==
  {Absent} \cup
  {Stored(text) : text \in
     {"oops", "null", "[5]", "{\"r1\":5}", "{\"r3\":2,\"r1\":4}"}}

\* Queries typed in the runs of the whole application.
QueryInputs == {" PEPPER ", "zz"}

\* Stars clicked in the runs of the whole application.
RatingInputs == {3, 5}

\* Categories clicked in the runs of the whole application.
CategoryInputs == {"All", "Dinner"}

\* The recipes whose cards are clicked in the runs of the whole application.
ClickedIds == {"r1", "r2"}

\* What localStorage may hold when the page is opened: any content of one
\* slot beside an absent or a well-formed other slot.
StorageInputs ==
  {[k \in {LS_KEYS.favorites, LS_KEYS.ratings} |->
      IF k = LS_KEYS.favorites THEN f ELSE r] :
     <<f, r>> \in
       (FavoritesSlotInputs \X {Absent})
         \cup ({Absent} \X RatingsSlotInputs)
         \cup {<<Stored("{\"r1\":true}"), Stored("{\"r1\":5}")>>}}

\* useMemo(..., [query, activeCategory]): the results for the queries and
\* categories of the runs of the whole application, computed once.
filterMemo ==
  [qc \in (QueryInputs \cup {""}) \X CategoryInputs |-> Filter(qc[1], qc[2])]

filtered ==
  IF <<query, activeCategory>> \in DOMAIN filterMemo
  THEN filterMemo[<<query, activeCategory>>]
  ELSE Filter(query, activeCategory)

(***************************************************************************)
(* What the render reads of the two maps.                                  *)
(***************************************************************************)
\* favoritesCount={Object.keys(favorites).length}
favoritesCount == Len(ObjectKeys(favorites))

\* isFavorite={!!favoritesMap[r.id]} of a card, and of the modal
isFavorite(id) == Truthy(GetProp(favorites, id))

\* userRating={selected ? ratings[selected.id] : 0}
userRating ==
  IF selected # 0 THEN GetProp(ratings, DEMO_RECIPES[selected].id) ELSE JSNum(0)

\* The render throws a TypeError: Object.keys(null), or ratings[id] of null
\* with the modal open.  No error boundary catches it and React unmounts the
\* tree, so no handler runs afterwards.
RenderThrows ==
  \/ favorites.t \in {"null", "undefined"}
  \/ selected # 0 /\ ratings.t \in {"null", "undefined"}

Mounted == loaded /\ ~RenderThrows


(***************************************************************************)
(* History records.                                                        *)
(***************************************************************************)
Op(name, id, value, ok) == [op |-> name, id |-> id, value |-> value, ok |-> ok]

\* Nothing has happened to either slot: no read, no mutation, no failed write,
\* no rating assigned (rated: the last value assigned to each identifier, 0
\* for none; rateCount: the assignments made; replaced: the number that the
\* last assignment overwrote, 0 for none).
FreshAudit ==
  [favRead |-> FALSE, ratRead |-> FALSE, favMutated |-> FALSE,
   ratMutated |-> FALSE, favFailed |-> FALSE, ratFailed |-> FALSE,
   rated |-> [id \in RecipeIds |-> 0], rateCount |-> 0, replaced |-> 0]

(***************************************************************************)
(* The App component.                                                      *)
(***************************************************************************)
\* useState initial values; localStorage is whatever the browser holds.
Init ==
  /\ query = ""
  /\ activeCategory = "All"
  /\ selected = 0
  /\ favorites = EmptyObject
  /\ ratings = EmptyObject
  /\ loaded = FALSE
  /\ localStorage \in StorageInputs
  /\ last = Op("mount", "", 0, TRUE)
  /\ audit = FreshAudit
  /\ before = FreshAudit
  /\ steps = 0

\* The mount effect: it runs once, after the first render and before any
\* event handler.
StartupLoad(readFavOk, readRatOk) ==
  /\ ~loaded
  /\ favorites' = getStoredFavorites(localStorage, readFavOk)
  /\ ratings' = getStoredRatings(localStorage, readRatOk)
  /\ loaded' = TRUE
  /\ last' = Op("load", "", 0, readFavOk /\ readRatOk)
  /\ audit' = [audit EXCEPT !.favRead = readFavOk, !.ratRead = readRatOk]
  /\ UNCHANGED <<ui, localStorage, before, steps>>

\* The recipes whose card is on screen, by position in the catalog.
Cards ==
  {i \in 1..Len(DEMO_RECIPES) :
     \E j \in 1..Len(filtered) : filtered[j] = DEMO_RECIPES[i]}

\* The identifiers whose favorite button is on screen: the cards of the
\* grid and the recipe of the modal.
FavButtons ==
  {DEMO_RECIPES[i].id : i \in Cards}
    \cup (IF selected # 0 THEN {DEMO_RECIPES[selected].id} ELSE {})

\* The updater of toggleFavorite: next, from prev.
toggleFavoriteNext(prev, id) ==
  LET copy == Spread(prev)
  IN  IF Truthy(GetProp(JSObj(copy), id)) THEN JSObj(DeleteProp(copy, id))
      ELSE JSObj(SetProp(copy, id, JSTrue))

toggleFavorite(id, writeOk) ==
  /\ Mounted
  /\ favorites' = toggleFavoriteNext(favorites, id)
  /\ localStorage' =
       setStoredFavorites(localStorage, toggleFavoriteNext(favorites, id), writeOk)
  /\ last' = Op("toggleFavorite", id, 0, writeOk)
  /\ audit' = [audit EXCEPT !.favMutated = TRUE,
                            !.favFailed = @ \/ ~writeOk]
  /\ UNCHANGED <<ui, ratings, loaded, before>>

\* Faulty variant of the updater of handleRate: an identifier that has a
\* rating keeps it.
handleRateNextKeepsFirst(prev, id, value) ==
  IF HasKey(Spread(prev), id) THEN JSObj(Spread(prev))
  ELSE JSObj(SetProp(Spread(prev), id, JSNum(value)))

\* The updater of handleRate: next, from prev.
handleRateNext(prev, id, value) == JSObj(SetProp(Spread(prev), id, JSNum(value)))

handleRate(id, value, writeOk) ==
  /\ Mounted
  /\ ratings' = handleRateNext(ratings, id, value)
  /\ localStorage' =
       setStoredRatings(localStorage, handleRateNext(ratings, id, value), writeOk)
  /\ last' = Op("handleRate", id, value, writeOk)
  /\ audit' = [audit EXCEPT !.ratMutated = TRUE,
                            !.ratFailed = @ \/ ~writeOk,
                            !.rated[id] = value,
                            !.rateCount = @ + 1,
                            !.replaced = GetProp(ratings, id).n]
  /\ UNCHANGED <<ui, favorites, loaded, before>>

\* onRate={(val) => selected && handleRate(selected.id, val)}
onRate(val, writeOk) ==
  /\ selected # 0
  /\ handleRate(DEMO_RECIPES[selected].id, val, writeOk)

\* A card of the grid is clicked.
openRecipe(i) ==
  /\ Mounted
  /\ selected' = i
  /\ last' = Op("openRecipe", DEMO_RECIPES[i].id, 0, TRUE)
  /\ UNCHANGED <<query, activeCategory, favorites, ratings, localStorage,
                 loaded, audit, before>>

closeModal ==
  /\ Mounted
  /\ selected # 0
  /\ selected' = 0
  /\ last' = Op("closeModal", "", 0, TRUE)
  /\ UNCHANGED <<query, activeCategory, favorites, ratings, localStorage,
                 loaded, audit, before>>

\* onQueryChange={setQuery}
setQuery(text) ==
  /\ Mounted
  /\ query' = text
  /\ last' = Op("setQuery", "", 0, TRUE)
  /\ UNCHANGED <<activeCategory, selected, favorites, ratings, localStorage,
                 loaded, audit, before>>

\* onClear={() => setQuery('')}; the button is shown while query is not empty.
onClear ==
  /\ query # ""
  /\ setQuery("")

\* onSelect={setActiveCategory}
setActiveCategory(c) ==
  /\ Mounted
  /\ activeCategory' = c
  /\ last' = Op("setActiveCategory", "", 0, TRUE)
  /\ UNCHANGED <<query, selected, favorites, ratings, localStorage,
                 loaded, audit, before>>

\* The page is reloaded: the component is mounted anew with its initial
\* state and its mount effect runs before any handler; localStorage stays.
Reload(readFavOk, readRatOk) ==
  /\ loaded
  /\ query' = ""
  /\ activeCategory' = "All"
  /\ selected' = 0
  /\ favorites' = getStoredFavorites(localStorage, readFavOk)
  /\ ratings' = getStoredRatings(localStorage, readRatOk)
  /\ last' = Op("reload", "", 0, readFavOk /\ readRatOk)
  /\ before' = audit
  /\ audit' = [FreshAudit EXCEPT !.favRead = readFavOk, !.ratRead = readRatOk]
  /\ UNCHANGED <<localStorage, loaded>>

Event ==
  \/ \E id \in FavButtons \cap ClickedIds, writeOk \in BOOLEAN :
        toggleFavorite(id, writeOk)
  \/ \E val \in RatingInputs, writeOk \in BOOLEAN : onRate(val, writeOk)
  \/ \E i \in {c \in Cards : DEMO_RECIPES[c].id \in ClickedIds} : openRecipe(i)
  \/ closeModal
  \/ \E text \in QueryInputs : setQuery(text)
  \/ onClear
  \/ \E c \in CategoryInputs : setActiveCategory(c)
  \/ \E readFavOk, readRatOk \in BOOLEAN : Reload(readFavOk, readRatOk)

Next ==
  \/ \E readFavOk, readRatOk \in BOOLEAN : StartupLoad(readFavOk, readRatOk)
  \/ /\ steps < MaxSteps
     /\ Event
     /\ steps' = steps + 1

Spec == Init /\ [][Next]_vars


(***************************************************************************)
(* The filter on its own: every query of up to MaxQueryLen characters of   *)
(* QueryAlphabet, and every category of the sidebar or outside the         *)
(* catalog, with both maps empty and nothing stored.                       *)
(***************************************************************************)
QueryAlphabet == {" ", "t", "B", "e"}

RECURSIVE QueryStrings(_)
QueryStrings(n) ==
  IF n = 0 THEN {""}
  ELSE QueryStrings(n - 1)
         \cup {q \o c : q \in {x \in QueryStrings(n - 1) : Len(x) = n - 1},
                        c \in QueryAlphabet}

FilterQueries == QueryStrings(MaxQueryLen)

SidebarChoices == {"All"} \cup categories

FilterCategories == SidebarChoices \cup {"Brunch", "dinner"}

FilterInit ==
  /\ query \in FilterQueries
  /\ activeCategory \in FilterCategories
  /\ selected = 0
  /\ favorites = EmptyObject
  /\ ratings = EmptyObject
  /\ loaded = TRUE
  /\ localStorage = [k \in {LS_KEYS.favorites, LS_KEYS.ratings} |-> Absent]
  /\ last = Op("load", "", 0, TRUE)
  /\ audit = [FreshAudit EXCEPT !.favRead = TRUE, !.ratRead = TRUE]
  /\ before = FreshAudit
  /\ steps = 0

FilterNext ==
  /\ \/ \E text \in FilterQueries : setQuery(text)
     \/ onClear
     \/ \E c \in SidebarChoices : setActiveCategory(c)
  /\ UNCHANGED steps

SpecFilter == FilterInit /\ [][FilterNext]_vars


(***************************************************************************)
(* Notions the properties are stated in.                                   *)
(***************************************************************************)
IsMapping(v) == v.t = "object"

KeySet(v) == {OwnEntries(v)[i].k : i \in 1..Len(OwnEntries(v))}

\* Two values are the same mapping: objects with the same keys and the same
\* value under each key, whatever the order of their properties; values that
\* are not objects are the same when they are equal.
SameMapping(a, b) ==
  IF IsMapping(a) /\ IsMapping(b)
  THEN /\ KeySet(a) = KeySet(b)
       /\ \A key \in KeySet(a) : GetProp(a, key) = GetProp(b, key)
  ELSE a = b

\* The value the text of a slot stands for; undefined when the slot is absent
\* or its text is not JSON.
PersistedIn(store, key) ==
  IF store[key].has /\ JSONParse(store[key].raw).ok
  THEN JSONParse(store[key].raw).v
  ELSE JSUndefined

Persisted(key) == PersistedIn(localStorage, key)

AllWhiteSpace(str) == \A i \in 1..Len(str) : CharAt(str, i) \in WhiteSpace

\* The position in the catalog of the recipe with this identifier.
CatalogPos(id) == CHOOSE i \in 1..Len(DEMO_RECIPES) : DEMO_RECIPES[i].id = id

\* Title, categories and ingredients of a recipe, in this order, each
\* followed by one space but the last, in lower case.
SearchText ==
  [i \in 1..Len(DEMO_RECIPES) |->
     LET r == DEMO_RECIPES[i]
         parts == <<r.title>> \o r.categories \o r.ingredients
         glue[n \in 0..Len(parts)] ==
           IF n = 0 THEN ""
           ELSE glue[n - 1] \o (IF n = 1 THEN "" ELSE " ") \o ToLowerCase(parts[n])
     IN  glue[Len(parts)]]

IsSubstring(q, text) ==
  \E start \in 1..(Len(text) - Len(q) + 1) :
     SubSeq(text, start, start + Len(q) - 1) = q

\* The two predicates a recipe must pass under the current query and category.
CategoryPredicate(i) ==
  \/ activeCategory = "All"
  \/ \E n \in 1..Len(DEMO_RECIPES[i].categories) :
        DEMO_RECIPES[i].categories[n] = activeCategory

TextPredicate(i) ==
  \/ ToLowerCase(Trim(query)) = ""
  \/ IsSubstring(ToLowerCase(Trim(query)), SearchText[i])

(***************************************************************************)
(* C3.  For every query and every selected category the filtered list is   *)
(* exactly the recipes of the catalog that pass the category predicate and *)
(* the text predicate, in catalog order and each once; a query of white    *)
(* space only gives the result of the empty query, and a category that no  *)
(* recipe carries gives the empty list.                                    *)
(***************************************************************************)
C3_FilterIsOrderedSelection ==
  /\ \A n \in 1..Len(filtered) :
        /\ filtered[n] = DEMO_RECIPES[CatalogPos(filtered[n].id)]
        /\ CategoryPredicate(CatalogPos(filtered[n].id))
        /\ TextPredicate(CatalogPos(filtered[n].id))
  /\ \A m, n \in 1..Len(filtered) :
        m < n => CatalogPos(filtered[m].id) < CatalogPos(filtered[n].id)
  /\ \A i \in 1..Len(DEMO_RECIPES) :
        CategoryPredicate(i) /\ TextPredicate(i)
          => \E n \in 1..Len(filtered) : filtered[n] = DEMO_RECIPES[i]
  /\ AllWhiteSpace(query) => filtered = Filter("", activeCategory)
  /\ activeCategory \notin SidebarChoices => filtered = <<>>

\* A query with surrounding white space and an upper-case letter, under a
\* category of the catalog, keeps some recipes of that category and drops
\* others.
C3_Witness ==
  /\ query # Trim(query)
  /\ ToLowerCase(query) # query
  /\ Trim(query) # ""
  /\ activeCategory \in categories
  /\ Len(filtered) > 0
  /\ Len(filtered) < Len(Filter("", activeCategory))


\* The content of a slot is not the text of a mapping: the key is absent,
\* the text is empty or is not JSON, or it is JSON of something else.
NotAMappingText(key) ==
  \/ ~localStorage[key].has
  \/ localStorage[key].raw = ""
  \/ ~JSONParse(localStorage[key].raw).ok
  \/ ~IsMapping(JSONParse(localStorage[key].raw).v)

(***************************************************************************)
(* C1.  Whatever a slot holds that is not the text of a mapping, and also  *)
(* when reading fails, getStoredFavorites and getStoredRatings return the  *)
(* empty mapping; so after the startup load the in-memory favorites and    *)
(* ratings are mappings.  (Stated of the states right after a load.)       *)
(***************************************************************************)
C1_LoadYieldsMapping ==
  last.op \in {"load", "reload"} =>
    /\ (~audit.favRead \/ NotAMappingText(LS_KEYS.favorites))
         => favorites = EmptyObject
    /\ (~audit.ratRead \/ NotAMappingText(LS_KEYS.ratings))
         => ratings = EmptyObject
    /\ IsMapping(favorites)
    /\ IsMapping(ratings)

(***************************************************************************)
(* C2.  In every state in which the handlers can run, toggling any recipe  *)
(* identifier twice in a row gives back the favorites mapping as it was.   *)
(***************************************************************************)
C2_DoubleToggleRestores ==
  Mounted =>
    \A id \in RecipeIds :
       SameMapping(toggleFavoriteNext(toggleFavoriteNext(favorites, id), id),
                   favorites)

(***************************************************************************)
(* C7.  No entry of the in-memory favorites, and no entry of the favorites *)
(* text that the application has written, holds anything but true.         *)
(***************************************************************************)
C7_FavoritesHoldOnlyTrue ==
  loaded =>
    /\ \A key \in KeySet(favorites) : GetProp(favorites, key) = JSTrue
    /\ (audit.favMutated /\ last.op = "toggleFavorite" /\ last.ok)
         => \A key \in KeySet(Persisted(LS_KEYS.favorites)) :
               GetProp(Persisted(LS_KEYS.favorites), key) = JSTrue

(***************************************************************************)
(* C10.  While the application is on screen the favorites count of the     *)
(* navigation bar is the number of recipes shown as favorited.             *)
(***************************************************************************)
C10_CountIsNumberFavorited ==
  Mounted => favoritesCount = Cardinality({id \in RecipeIds : isFavorite(id)})


(***************************************************************************)
(* C4.  Persistence round trip.  A write that succeeds stores a text from  *)
(* which a load that reads the slot gets the mapping written; and a reload *)
(* that reads a slot whose writes since the page was loaded all succeeded  *)
(* (the slot having been read or written on that page) restores the        *)
(* in-memory mapping held just before the reload.                          *)
(***************************************************************************)
C4_RoundTrip ==
  [][ /\ (last'.op = "toggleFavorite" /\ last'.ok)
           => SameMapping(getStoredFavorites(localStorage', TRUE), favorites')
      /\ (last'.op = "handleRate" /\ last'.ok)
           => SameMapping(getStoredRatings(localStorage', TRUE), ratings')
      /\ (/\ last'.op = "reload"
          /\ audit'.favRead
          /\ ~audit.favFailed
          /\ audit.favMutated \/ audit.favRead)
           => SameMapping(favorites', favorites)
      /\ (/\ last'.op = "reload"
          /\ audit'.ratRead
          /\ ~audit.ratFailed
          /\ audit.ratMutated \/ audit.ratRead)
           => SameMapping(ratings', ratings) ]_vars

\* The page has just been reloaded after a rating was assigned and written,
\* beside favorites that were stored; both maps are back, not empty.
C4_Witness ==
  /\ last.op = "reload"
  /\ audit.favRead /\ audit.ratRead
  /\ before.ratMutated /\ ~before.ratFailed
  /\ \E id \in RecipeIds :
        /\ before.rated[id] \in stars
        /\ GetProp(ratings, id) = JSNum(before.rated[id])
  /\ \E id \in RecipeIds : isFavorite(id)

(***************************************************************************)
(* C5.  A storage write that fails in toggleFavorite or handleRate is      *)
(* absorbed: the in-memory mapping takes the new value, the stored text    *)
(* stays as it was and the application stays on screen; storage changes    *)
(* only in a toggle or rating whose write succeeds (no retry); and every   *)
(* toggle or rating works on the in-memory mapping: the other entries are  *)
(* those of memory, and what a successful write stores is the new          *)
(* in-memory mapping.                                                      *)
(***************************************************************************)
C5_WriteFailureAbsorbed ==
  [][ /\ (last'.op = "toggleFavorite" /\ ~last'.ok)
           => /\ localStorage' = localStorage
              /\ Mounted'
      /\ last'.op = "toggleFavorite"
           => /\ IsMapping(favorites')
              /\ Truthy(GetProp(favorites', last'.id))
                   = ~Truthy(GetProp(favorites, last'.id))
              /\ \A key \in (KeySet(favorites) \cup KeySet(favorites')) \ {last'.id} :
                    GetProp(favorites', key) = GetProp(favorites, key)
              /\ last'.ok => SameMapping(PersistedIn(localStorage', LS_KEYS.favorites), favorites')
      /\ (last'.op = "handleRate" /\ ~last'.ok)
           => /\ localStorage' = localStorage
              /\ Mounted'
      /\ last'.op = "handleRate"
           => /\ IsMapping(ratings')
              /\ GetProp(ratings', last'.id) = JSNum(last'.value)
              /\ \A key \in (KeySet(ratings) \cup KeySet(ratings')) \ {last'.id} :
                    GetProp(ratings', key) = GetProp(ratings, key)
              /\ last'.ok => SameMapping(PersistedIn(localStorage', LS_KEYS.ratings), ratings')
      /\ localStorage' # localStorage
           => last'.op \in {"toggleFavorite", "handleRate"} /\ last'.ok ]_vars

\* A toggle whose write failed was followed by a toggle of another recipe
\* whose write succeeded: both recipes are favorites in memory and in storage.
C5_Witness ==
  /\ audit.favFailed
  /\ last.op = "toggleFavorite" /\ last.ok
  /\ \E id \in RecipeIds \ {last.id} :
        /\ isFavorite(id)
        /\ GetProp(Persisted(LS_KEYS.favorites), id) = JSTrue
  /\ isFavorite(last.id)
  /\ SameMapping(Persisted(LS_KEYS.favorites), favorites)


\* The ratings of a page and of a store hold, for every identifier rated on
\* this page, the value last assigned to it.
HoldsLastAssigned(map, rated) ==
  \A id \in RecipeIds : rated[id] # 0 => GetProp(map, id) = JSNum(rated[id])

(***************************************************************************)
(* C6.  Rating assignment is last write wins and touches one identifier:   *)
(* after every step the in-memory ratings hold, for each identifier rated  *)
(* on this page, the value last assigned to it, and so does the stored     *)
(* text when no rating write of this page has failed; an assignment leaves *)
(* the entries of the other identifiers as they were, and assigning the    *)
(* value already held leaves the mapping as it was.                        *)
(***************************************************************************)
C6_LastWriteWins ==
  [][ /\ HoldsLastAssigned(ratings', audit'.rated)
      /\ (audit'.ratMutated /\ ~audit'.ratFailed)
           => HoldsLastAssigned(PersistedIn(localStorage', LS_KEYS.ratings),
                                audit'.rated)
      /\ last'.op = "handleRate"
           => /\ \A key \in (KeySet(ratings) \cup KeySet(ratings')) \ {last'.id} :
                    GetProp(ratings', key) = GetProp(ratings, key)
              /\ (IsMapping(ratings)
                    /\ GetProp(ratings, last'.id) = JSNum(last'.value))
                   => SameMapping(ratings', ratings) ]_vars

\* A recipe rated 5 has been rated 3, both written: memory and storage hold 3
\* for it.
C6_Witness ==
  /\ last.op = "handleRate" /\ last.value = 3 /\ last.ok
  /\ audit.rateCount >= 2 /\ ~audit.ratFailed
  /\ audit.replaced = 5
  /\ GetProp(ratings, last.id) = JSNum(3)
  /\ GetProp(Persisted(LS_KEYS.ratings), last.id) = JSNum(3)

(***************************************************************************)
(* C8.  Every mutation is mirrored to storage at once, and only after the  *)
(* startup load: after every step, a slot that has been mutated on this    *)
(* page with no failed write holds the text of the in-memory mapping; and  *)
(* storage is written only once the maps have been loaded, by a toggle or  *)
(* a rating.                                                               *)
(***************************************************************************)
C8_StorageMirrorsMemory ==
  [][ /\ (loaded' /\ audit'.favMutated /\ ~audit'.favFailed)
           => /\ localStorage'[LS_KEYS.favorites].has
              /\ SameMapping(PersistedIn(localStorage', LS_KEYS.favorites),
                             favorites')
      /\ (loaded' /\ audit'.ratMutated /\ ~audit'.ratFailed)
           => /\ localStorage'[LS_KEYS.ratings].has
              /\ SameMapping(PersistedIn(localStorage', LS_KEYS.ratings),
                             ratings')
      /\ localStorage' # localStorage
           => loaded /\ last'.op \in {"toggleFavorite", "handleRate"} ]_vars

\* Both slots have been mutated with every write succeeding, and neither map
\* is empty.
C8_Witness ==
  /\ audit.favMutated /\ ~audit.favFailed
  /\ audit.ratMutated /\ ~audit.ratFailed
  /\ KeySet(favorites) # {} /\ KeySet(ratings) # {}
  /\ SameMapping(Persisted(LS_KEYS.favorites), favorites)
  /\ SameMapping(Persisted(LS_KEYS.ratings), ratings)

(***************************************************************************)
(* C9.  The two slots are independent: toggleFavorite leaves the in-memory *)
(* and the stored ratings as they were, handleRate leaves the in-memory    *)
(* and the stored favorites as they were, and a change of the query or of  *)
(* the category, opening a recipe and closing the modal leave both maps    *)
(* and both slots as they were.  (The catalog is a constant.)              *)
(***************************************************************************)
C9_SlotsAreIndependent ==
  [][ /\ last'.op = "toggleFavorite"
           => /\ ratings' = ratings
              /\ localStorage'[LS_KEYS.ratings] = localStorage[LS_KEYS.ratings]
      /\ last'.op = "handleRate"
           => /\ favorites' = favorites
              /\ localStorage'[LS_KEYS.favorites] = localStorage[LS_KEYS.favorites]
      /\ last'.op \in {"setQuery", "setActiveCategory", "openRecipe", "closeModal"}
           => /\ favorites' = favorites
              /\ ratings' = ratings
              /\ localStorage' = localStorage ]_vars

\* A favorite has just been toggled and written while ratings are held in
\* memory and in storage.
C9_Witness ==
  /\ last.op = "toggleFavorite" /\ last.ok
  /\ KeySet(ratings) # {}
  /\ localStorage[LS_KEYS.ratings].has
  /\ localStorage[LS_KEYS.favorites].has
  /\ audit.ratMutated

=============================================================================
